---- MODULE Spec2Model ----
(***************************************************************************)
(* Model of the sync_xcode_project tool of rn-upgrader-mcp                 *)
(* (src/src/index.ts, handleToolCall, lines 584-909).                      *)
(*                                                                         *)
(* A handler call reads project.pbxproj, edits the object graph held by    *)
(* the xcode package (PBXFileReference, PBXBuildFile, PBXGroup and the     *)
(* three build phase sections) and writes the manifest back.               *)
(*                                                                         *)
(* Strings are sequences of tokens: "/", "." and the quote are the         *)
(* separators the code looks at, every other token stands for a run of     *)
(* characters without a separator.                                         *)
(*                                                                         *)
(* Specifications:                                                         *)
(*   Spec           calls of sync_xcode_project, one action per call       *)
(*   MalformedSpec  the same calls on manifests left in disorder           *)
(*   StepSpec       one call of sync_xcode_project, statement by statement *)
(*   CallSpec       handleToolCall (lines 270-927): how a call ends        *)
(*   CacheSpec      fetchDiffWithCache (lines 202-221), concurrent calls   *)
(*   DiffSpec       parseFilesFromDiff, extractFileDiff (lines 223-267)    *)
(***************************************************************************)
EXTENDS Naturals, Sequences, FiniteSets

\* ------------------------------------------------------------------------
\* Bounds of the model
\* ------------------------------------------------------------------------
\* identifiers the uuid generator can draw from are 1..MaxId
MaxId == 9
\* number of tool calls in a run
MaxCalls == 2

NoId == 0
Ids == 1..MaxId

Q == "\""
SLASH == "/"
DOT == "."

\* ------------------------------------------------------------------------
\* String helpers (JavaScript String methods on token sequences)
\* ------------------------------------------------------------------------
\* s.startsWith(p)
StartsWith(s, p) ==
  /\ Len(p) <= Len(s)
  /\ SubSeq(s, 1, Len(p)) = p

\* s.endsWith(p)
EndsWith(s, p) ==
  /\ Len(p) <= Len(s)
  /\ SubSeq(s, Len(s) - Len(p) + 1, Len(s)) = p

\* s.split(sep).pop(): the text after the last sep, the whole of s when
\* there is none
SplitPop(s, sep) ==
  LET idx == {i \in 1..Len(s) : s[i] = sep}
  IN  IF idx = {} THEN s
      ELSE LET last == CHOOSE i \in idx : \A j \in idx : j <= i
           IN  SubSeq(s, last + 1, Len(s))

\* s.replace(/"/g, '')
StripQuotes(s) == SelectSeq(s, LAMBDA t : t # Q)

LowerTok(t) ==
  CASE t = "M" -> "m"
    [] t = "SWIFT" -> "swift"
    [] t = "H" -> "h"
    [] OTHER -> t

\* s.toLowerCase()
ToLowerCase(s) == [i \in 1..Len(s) |-> LowerTok(s[i])]

\* '"' + s + '"'
Quoted(s) == <<Q>> \o s \o <<Q>>

\* ------------------------------------------------------------------------
\* Extension classification (index.ts 653, 680-707 and 757-802)
\* ------------------------------------------------------------------------
\* const ext = filePath.split('.').pop()?.toLowerCase()
ExtOf(filePath) == ToLowerCase(SplitPop(filePath, DOT))

IsSourceExt(ext) == ext \in {<<"swift">>, <<"m">>, <<"mm">>, <<"cpp">>, <<"c">>}
IsHeaderExt(ext) == ext \in {<<"h">>, <<"hpp">>}
IsFrameworkExt(ext) == ext \in {<<"framework">>, <<"a">>, <<"dylib">>}

\* the branch of the if-chain the extension takes
KindOfExt(ext) ==
  IF IsSourceExt(ext) THEN "source"
  ELSE IF IsHeaderExt(ext) THEN "header"
  ELSE IF IsFrameworkExt(ext) THEN "framework"
  ELSE "resource"

\* ------------------------------------------------------------------------
\* The object graph (project.hash.project.objects)
\*   fileRefs   PBXFileReference section, in table order:
\*              [id, path, name]; name = <<>> when the record has none
\*   buildFiles PBXBuildFile section: [id, fileRef, comment]
\*              (comment is fileRef_comment, the file's basename)
\*   groups     PBXGroup section: [id, name, children], children the
\*              child.value ids in order
\*   phases     files of the Sources, Resources and Frameworks build phase:
\*              [value, comment]
\*   mainGroup  PBXProject.mainGroup, the root of the group tree
\* ------------------------------------------------------------------------
Roles == {"Sources", "Resources", "Frameworks"}

FileRef(i, p, n) == [id |-> i, path |-> p, name |-> n]
BuildFile(i, f, c) == [id |-> i, fileRef |-> f, comment |-> c]
Group(i, n, ch) == [id |-> i, name |-> n, children |-> ch]
PhaseEntry(v, c) == [value |-> v, comment |-> c]

SeqToSet(s) == {s[i] : i \in 1..Len(s)}
IdsOf(table) == {table[i].id : i \in 1..Len(table)}

\* index of the first element of s satisfying P, 0 when there is none
FirstIndex(s, P(_)) ==
  LET idx == {i \in 1..Len(s) : P(s[i])}
  IN  IF idx = {} THEN 0 ELSE CHOOSE i \in idx : \A j \in idx : i <= j

\* s without its element at index i (delete obj[key], Array.splice(i, 1))
RemoveAt(s, i) ==
  IF i = 0 THEN s ELSE SubSeq(s, 1, i - 1) \o SubSeq(s, i + 1, Len(s))

\* path.basename(filepath)
Basename(filepath) == SplitPop(filepath, SLASH)

\* pbxProject.allUuids(): every key of every section
allUuids(g) == IdsOf(g.fileRefs) \cup IdsOf(g.buildFiles) \cup IdsOf(g.groups)

\* pbxProject.pbxGroupByName(name): index of the first group of that name
pbxGroupByName(g, name) == FirstIndex(g.groups, LAMBDA gr : gr.name = name)

\* pbxProject.getPBXGroupByKey(key): index of the group with that key
getPBXGroupByKey(g, key) == FirstIndex(g.groups, LAMBDA gr : gr.id = key)

\* pbxProject.hasFile(filePath)
hasFile(g, filePath) ==
  \E i \in 1..Len(g.fileRefs) :
    \/ g.fileRefs[i].path = filePath
    \/ g.fileRefs[i].path = Quoted(filePath)

\* pbxFile: the stored path of a new file. A framework or a dylib is
\* placed under the system directory of its type, any other file keeps
\* the path it was given.
DefaultPath(filepath) ==
  LET e == SplitPop(Basename(filepath), DOT)
  IN  IF e = <<"framework">>
        THEN <<"System", SLASH, "Library", SLASH, "Frameworks", SLASH>> \o Basename(filepath)
      ELSE IF e = <<"dylib">>
        THEN <<"usr", SLASH, "lib", SLASH>> \o Basename(filepath)
      ELSE filepath

\* pbxProject.addToPbxFileReferenceSection(file): name and path are
\* written quoted
addToPbxFileReferenceSection(g, fr, filepath) ==
  [g EXCEPT !.fileRefs =
     Append(@, FileRef(fr, Quoted(filepath), Quoted(Basename(filepath))))]

\* pbxProject.addToPbxGroup(file, groupKey): children.push
addToPbxGroup(g, fr, groupKey) ==
  LET k == getPBXGroupByKey(g, groupKey)
  IN  IF k = 0 THEN g
      ELSE [g EXCEPT !.groups[k].children = Append(@, fr)]

\* pbxProject.addToPbxBuildFileSection(file)
addToPbxBuildFileSection(g, uu, fr, filepath) ==
  [g EXCEPT !.buildFiles = Append(@, BuildFile(uu, fr, Basename(filepath)))]

\* a faulty addToPbx<Role>BuildPhase: the entry goes to the Sources phase
\* whatever the role
addToPbxBuildPhase_WrongPhase(g, role, uu, filepath) ==
  [g EXCEPT !.phases["Sources"] = Append(@, PhaseEntry(uu, Basename(filepath)))]

\* pbxProject.addToPbx<Role>BuildPhase(file): files.push
addToPbxBuildPhase(g, role, uu, filepath) ==
  [g EXCEPT !.phases[role] = Append(@, PhaseEntry(uu, Basename(filepath)))]

\* pbxProject.pbxCreateGroup(name): a new empty group is entered in the
\* PBXGroup section; no group's children are touched
pbxCreateGroup(g, key, name) ==
  [g EXCEPT !.groups = Append(@, Group(key, name, <<>>))]

\* pbxProject.addFile(path, group): nothing is added when the path is
\* already in the project
addFile(g, filepath, group, fr) ==
  IF hasFile(g, filepath) THEN g
  ELSE addToPbxGroup(addToPbxFileReferenceSection(g, fr, filepath), fr, group)

\* project.addSourceFile(filePath, null, group)
addSourceFile(g, filepath, group, fr, uu) ==
  IF hasFile(g, filepath) THEN g
  ELSE addToPbxBuildPhase(
         addToPbxBuildFileSection(addFile(g, filepath, group, fr),
                                  uu, fr, filepath),
         "Sources", uu, filepath)

\* project.addHeaderFile(filePath, null, group)
addHeaderFile(g, filepath, group, fr) == addFile(g, filepath, group, fr)

\* project.addFramework(filePath): PBXBuildFile, PBXFileReference, then
\* the push onto the children of the group named Frameworks, then the
\* Frameworks build phase
addFramework(g, filepath, fr, uu) ==
  LET p == DefaultPath(filepath)
      k == pbxGroupByName(g, "Frameworks")
  IN  IF hasFile(g, p) THEN g
      ELSE LET g1 == addToPbxBuildFileSection(g, uu, fr, p)
               g2 == addToPbxFileReferenceSection(g1, fr, p)
               g3 == [g2 EXCEPT !.groups[k].children = Append(@, fr)]
           IN  addToPbxBuildPhase(g3, "Frameworks", uu, p)

\* addFramework throws a TypeError at the push when no group is named
\* Frameworks; the two sections written before the push keep their entry
addFrameworkThrows(g, filepath) ==
  /\ ~hasFile(g, DefaultPath(filepath))
  /\ pbxGroupByName(g, "Frameworks") = 0

addFrameworkPartial(g, filepath, fr, uu) ==
  LET p == DefaultPath(filepath)
  IN  addToPbxFileReferenceSection(
        addToPbxBuildFileSection(g, uu, fr, p), fr, p)

\* project.addResourceFile(filePath): PBXBuildFile, the Resources build
\* phase, PBXFileReference, then the group named Resources; when no group
\* has that name, a new group named Resources, with the file as its only
\* child, is entered in the PBXGroup section under key
addResourceFile(g, filepath, fr, uu, key) ==
  LET k == pbxGroupByName(g, "Resources")
  IN  IF hasFile(g, filepath) THEN g
      ELSE LET g1 == addToPbxBuildFileSection(g, uu, fr, filepath)
               g2 == addToPbxBuildPhase(g1, "Resources", uu, filepath)
               g3 == addToPbxFileReferenceSection(g2, fr, filepath)
           IN  IF k = 0
                 THEN [g3 EXCEPT !.groups =
                         Append(@, Group(key, "Resources", <<fr>>))]
                 ELSE [g3 EXCEPT !.groups[k].children = Append(@, fr)]

\* The library reads the path of the group named Resources (Plugins) before
\* it adds or removes a resource (plugin) file. A release of the package
\* that does not test for the group first throws a TypeError there when no
\* group has the name, before anything is changed; guard tells whether the
\* installed release tests.
missingGroupThrows(g, name, guard) ==
  /\ ~guard
  /\ pbxGroupByName(g, name) = 0

addResourceFileThrows(g, filepath, guard) ==
  /\ ~hasFile(g, filepath)
  /\ missingGroupThrows(g, "Resources", guard)

\* ---- removal by the library ---------------------------------------------
\* pbxProject.removeFromPbxFileReferenceSection(file): index of the first
\* record whose name or path, quoted or not, is the file's
libFileRefIndex(g, filepath) ==
  FirstIndex(g.fileRefs, LAMBDA r :
    \/ r.name = Quoted(Basename(filepath))
    \/ Quoted(r.name) = Quoted(Basename(filepath))
    \/ r.path = Quoted(filepath)
    \/ Quoted(r.path) = Quoted(filepath))

\* file.fileRef after removeFromPbxFileReferenceSection
libFileRef(g, filepath) ==
  LET i == libFileRefIndex(g, filepath)
  IN  IF i = 0 THEN NoId ELSE g.fileRefs[i].id

removeFromPbxFileReferenceSection(g, filepath) ==
  [g EXCEPT !.fileRefs = RemoveAt(@, libFileRefIndex(g, filepath))]

\* pbxProject.removeFrom<Name>PbxGroup(file): the first child of the
\* group of that name that is the file; nothing when no group has the name
removeFromNamedPbxGroup(g, name, fr) ==
  LET k == pbxGroupByName(g, name)
  IN  IF k = 0 THEN g
      ELSE [g EXCEPT !.groups[k].children =
              RemoveAt(@, FirstIndex(@, LAMBDA c : c = fr))]

\* pbxProject.removeFromPbxBuildFileSection(file): every build file whose
\* fileRef_comment is the file's basename
removeFromPbxBuildFileSection(g, filepath) ==
  [g EXCEPT !.buildFiles =
     SelectSeq(@, LAMBDA b : b.comment # Basename(filepath))]

\* pbxProject.removeFromPbx<Role>BuildPhase(file): the first entry of the
\* phase whose comment names the file
removeFromPbxBuildPhase(g, role, filepath) ==
  [g EXCEPT !.phases[role] =
     RemoveAt(@, FirstIndex(@, LAMBDA e : e.comment = Basename(filepath)))]

\* pbxProject.removePluginFile(path)
removePluginFile(g, filepath) ==
  removeFromNamedPbxGroup(removeFromPbxFileReferenceSection(g, filepath),
                          "Plugins", libFileRef(g, filepath))

\* project.removeSourceFile(path)
removeSourceFile(g, filepath) ==
  removeFromPbxBuildPhase(
    removeFromPbxBuildFileSection(removePluginFile(g, filepath), filepath),
    "Sources", filepath)

\* project.removeHeaderFile(path)
removeHeaderFile(g, filepath) == removePluginFile(g, filepath)

\* project.removeFramework(path)
removeFramework(g, filepath) ==
  LET p == DefaultPath(filepath)
      g1 == removeFromPbxBuildFileSection(g, p)
      g2 == removeFromPbxFileReferenceSection(g1, p)
      g3 == removeFromNamedPbxGroup(g2, "Frameworks", libFileRef(g1, p))
  IN  removeFromPbxBuildPhase(g3, "Frameworks", p)

\* project.removeResourceFile(path)
removeResourceFile(g, filepath) ==
  LET g1 == removeFromPbxBuildFileSection(g, filepath)
      g2 == removeFromPbxFileReferenceSection(g1, filepath)
      g3 == removeFromNamedPbxGroup(g2, "Resources", libFileRef(g1, filepath))
  IN  removeFromPbxBuildPhase(g3, "Resources", filepath)

\* removePluginFile reads the path of the group named Plugins and
\* removeResourceFile that of the group named Resources first
removePluginFileThrows(g, guard) == missingGroupThrows(g, "Plugins", guard)
removeResourceFileThrows(g, guard) == missingGroupThrows(g, "Resources", guard)

\* ------------------------------------------------------------------------
\* The manifest text (project.parseSync, project.writeSync)
\* The text is a sequence of entries, one per object, section by section
\* in the order the writer emits the sections.
\* ------------------------------------------------------------------------
MapSeq(s, F(_)) == [i \in 1..Len(s) |-> F(s[i])]

\* a faulty writer: the file references are written last key first
writeSync_ReversesFileRefs(g) ==
  MapSeq(g.buildFiles, LAMBDA b : <<"PBXBuildFile", b.id, b.fileRef, b.comment>>)
  \o [i \in 1..Len(g.fileRefs) |->
        LET r == g.fileRefs[Len(g.fileRefs) + 1 - i]
        IN  <<"PBXFileReference", r.id, r.path, r.name>>]
  \o <<<<"PBXFrameworksBuildPhase", g.phases["Frameworks"]>>>>
  \o MapSeq(g.groups, LAMBDA gr : <<"PBXGroup", gr.id, gr.name, gr.children>>)
  \o <<<<"PBXProject", g.mainGroup>>>>
  \o <<<<"PBXResourcesBuildPhase", g.phases["Resources"]>>>>
  \o <<<<"PBXSourcesBuildPhase", g.phases["Sources"]>>>>

\* project.writeSync()
writeSync(g) ==
  MapSeq(g.buildFiles, LAMBDA b : <<"PBXBuildFile", b.id, b.fileRef, b.comment>>)
  \o MapSeq(g.fileRefs, LAMBDA r : <<"PBXFileReference", r.id, r.path, r.name>>)
  \o <<<<"PBXFrameworksBuildPhase", g.phases["Frameworks"]>>>>
  \o MapSeq(g.groups, LAMBDA gr : <<"PBXGroup", gr.id, gr.name, gr.children>>)
  \o <<<<"PBXProject", g.mainGroup>>>>
  \o <<<<"PBXResourcesBuildPhase", g.phases["Resources"]>>>>
  \o <<<<"PBXSourcesBuildPhase", g.phases["Sources"]>>>>

Section(text, isa) == SelectSeq(text, LAMBDA e : e[1] = isa)

\* project.parseSync()
parseSync(text) ==
  [fileRefs   |-> MapSeq(Section(text, "PBXFileReference"),
                         LAMBDA e : FileRef(e[2], e[3], e[4])),
   buildFiles |-> MapSeq(Section(text, "PBXBuildFile"),
                         LAMBDA e : BuildFile(e[2], e[3], e[4])),
   groups     |-> MapSeq(Section(text, "PBXGroup"),
                         LAMBDA e : Group(e[2], e[3], e[4])),
   phases     |-> [role \in Roles |->
                     Section(text, "PBX" \o role \o "BuildPhase")[1][2]],
   mainGroup  |-> Section(text, "PBXProject")[1][2]]

\* ------------------------------------------------------------------------
\* Project files the tool is run on
\* ------------------------------------------------------------------------
fA == <<"A", DOT, "swift">>
fAppA == <<"App", SLASH>> \o fA
fIosAppA == <<"ios", SLASH>> \o fAppA
fB == <<"B", DOT, "H">>
fL == <<"L", DOT, "a">>
fI == <<"I", DOT, "png">>
fM == <<"m">>
fP == <<"P", DOT, "m">>
fD == <<"D", DOT, "cpp">>

\* the filePath arguments of the calls
InputPaths == {fA, fIosAppA, fB, fL, fI, fM}

\* a React Native application project: the Frameworks group and the
\* application group under the root; no group is named Plugins or Resources
GraphRN ==
  [fileRefs   |-> <<FileRef(4, fAppA, fA), FileRef(5, fI, <<>>)>>,
   buildFiles |-> <<BuildFile(6, 4, fA), BuildFile(7, 5, fI)>>,
   groups     |-> <<Group(1, "", <<2, 3>>), Group(2, "Frameworks", <<>>),
                    Group(3, "App", <<4, 5>>)>>,
   phases     |-> [role \in Roles |->
                     CASE role = "Sources" -> <<PhaseEntry(6, fA)>>
                       [] role = "Resources" -> <<PhaseEntry(7, fI)>>
                       [] OTHER -> <<>>],
   mainGroup  |-> 1]

\* a project with groups named Resources and Plugins: the Resources group,
\* first in table order, holds a resource only, the sources are in Classes;
\* no group is named Frameworks
GraphPlugins ==
  [fileRefs   |-> <<FileRef(5, Quoted(fI), Quoted(fI)), FileRef(6, fP, <<>>)>>,
   buildFiles |-> <<BuildFile(7, 6, fP)>>,
   groups     |-> <<Group(2, "Resources", <<5>>), Group(1, "", <<2, 3, 4>>),
                    Group(3, "Classes", <<6>>), Group(4, "Plugins", <<>>)>>,
   phases     |-> [role \in Roles |->
                     CASE role = "Sources" -> <<PhaseEntry(7, fP)>>
                       [] OTHER -> <<>>],
   mainGroup  |-> 1]

\* a project whose only source file is a C++ file
GraphCpp ==
  [fileRefs   |-> <<FileRef(3, fD, <<>>), FileRef(5, fB, <<>>)>>,
   buildFiles |-> <<BuildFile(4, 3, fD)>>,
   groups     |-> <<Group(1, "", <<2, 6, 7>>), Group(2, "Native", <<3, 5>>),
                    Group(6, "Frameworks", <<>>), Group(7, "Products", <<>>)>>,
   phases     |-> [role \in Roles |->
                     CASE role = "Sources" -> <<PhaseEntry(4, fD)>>
                       [] OTHER -> <<>>],
   mainGroup  |-> 1]

InitGraphs == {GraphRN, GraphPlugins, GraphCpp}

\* ------------------------------------------------------------------------
\* State
\*   disk     text of project.pbxproj
\*   project  the object graph held by the last call when it returned
\*   before   the object graph the last call parsed
\*   last     what the last call did
\* ------------------------------------------------------------------------
\*   calls    number of calls made
\*   guarded  the installed release of the xcode package tests for a
\*            missing Plugins or Resources group (see missingGroupThrows)
\*   prior    when the call before the last one was an add that entered a
\*            file record: the graph that add parsed and its filePath
VARIABLES disk, project, before, last, calls, guarded, prior

\* The handler step by step (StepSpec):
\*   pc       the place of the running call in the handler, "idle" between
\*            two calls
\*   log      the steps the running call has taken on the graph and on the
\*            manifest, in order
VARIABLES pc, log

\* The calls of handleToolCall (CallSpec):
\*   handled  the calls made so far, each with its tool name, its arguments
\*            and how it ended
VARIABLES handled

\* The diff cache (CacheSpec):
\*   diffCache  the Map diffCache, cache key -> diff text
\*   fetches    per cache key, the number of fetches that returned a text
\*   task       per concurrent call, its place in fetchDiffWithCache
\*   taskKey    per concurrent call, its cache key
VARIABLES diffCache, fetches, task, taskKey

\* The functions on a diff text (DiffSpec):
\*   diffText   the diff text
\*   fileList   the last result of parseFilesFromDiff
\*   askedFile  the fileName of the last extractFileDiff
\*   fragment   the last result of extractFileDiff
\*   diffAt     "start", "listed" after parseFilesFromDiff, "extracted"
\*              after extractFileDiff
VARIABLES diffText, fileList, askedFile, fragment, diffAt

syncVars == <<disk, project, before, last, calls, guarded, prior>>
stepVars == <<pc, log>>
callVars == <<handled>>
cacheVars == <<diffCache, fetches, task, taskKey>>
diffVars == <<diffText, fileList, askedFile, fragment, diffAt>>

\* what the calls of sync_xcode_project leave alone
restVars == <<callVars, cacheVars, diffVars>>

vars == <<syncVars, stepVars, callVars, cacheVars, diffVars>>

NoCall ==
  [op |-> "none", filePath |-> <<>>, result |-> "none", written |-> FALSE,
   fileRef |-> NoId, buildFileUuid |-> NoId, via |-> "none",
   groupName |-> NoId, newGroupKey |-> NoId, newFileRef |-> NoId,
   newUuid |-> NoId]

\* a graph without objects
NoGraph ==
  [fileRefs |-> <<>>, buildFiles |-> <<>>, groups |-> <<>>,
   phases |-> [role \in Roles |-> <<>>], mainGroup |-> NoId]

NoPrior == [graph |-> NoGraph, filePath |-> <<>>]

\* prior after one more call
priorOf(call, g) ==
  IF call.op = "add" /\ call.newFileRef # NoId /\ call.result # "Error"
    THEN [graph |-> g, filePath |-> call.filePath]
    ELSE NoPrior

\* no call of another tool has been made
CallIdle == handled = <<>>
CacheIdle ==
  /\ diffCache = <<>>
  /\ fetches = <<>>
  /\ task = <<>>
  /\ taskKey = <<>>
DiffIdle ==
  /\ diffText = <<>>
  /\ fileList = <<>>
  /\ askedFile = <<>>
  /\ fragment = <<>>
  /\ diffAt = "start"
RestIdle == CallIdle /\ CacheIdle /\ DiffIdle

Init ==
  \E g \in InitGraphs :
    /\ disk = writeSync(g)
    /\ project = g
    /\ before = g
    /\ last = NoCall
    /\ calls = 0
    /\ guarded \in BOOLEAN
    /\ prior = NoPrior
    /\ pc = "idle"
    /\ log = <<>>
    /\ RestIdle

\* ---- add: the group search (index.ts 655-678) ----------------------------
\* group.children.some(...): a child that is a file reference with a path
\* ending in .swift, .m or .mm
hasSourceFiles(g, group) ==
  \E c \in 1..Len(group.children) :
    LET i == FirstIndex(g.fileRefs, LAMBDA r : r.id = group.children[c])
    IN  /\ i # 0
        /\ g.fileRefs[i].path # <<>>
        /\ LET path == StripQuotes(g.fileRefs[i].path)
           IN  \/ EndsWith(path, <<DOT, "swift">>)
               \/ EndsWith(path, <<DOT, "m">>)
               \/ EndsWith(path, <<DOT, "mm">>)

\* groupName after the loop over the PBXGroup section, NoId for null
groupNameOf(g) ==
  LET k == FirstIndex(g.groups, LAMBDA gr :
             Len(gr.children) > 0 /\ hasSourceFiles(g, gr))
  IN  IF k = 0 THEN NoId ELSE g.groups[k].id

\* pbxProject.generateUuid(): an identifier that is no key of any section
FreshIds(g) == Ids \ allUuids(g)

\* ---- sync_xcode_project, operation add (index.ts 638-707, 876-893) -------
SyncAdd(filePath) ==
  LET g == parseSync(disk)
      ext == ExtOf(filePath)
      kind == KindOfExt(ext)
      groupName == groupNameOf(g)
      \* a group is created: by the handler for a source or a header
      \* when the search found none, by addResourceFile when no group is
      \* named Resources
      create == \/ groupName = NoId /\ kind \in {"source", "header"}
                \/ /\ kind = "resource"
                   /\ ~hasFile(g, filePath)
                   /\ pbxGroupByName(g, "Resources") = 0
                   /\ guarded
  IN
  \E exists \in BOOLEAN :
  \E newGroupKey \in (IF create /\ exists THEN FreshIds(g) ELSE {NoId}) :
  \E fr \in (IF exists THEN FreshIds(g) \ {newGroupKey} ELSE {NoId}) :
  \E uu \in (IF exists /\ kind # "header"
               THEN FreshIds(g) \ {newGroupKey, fr} ELSE {NoId}) :
    LET g0 == IF create /\ kind # "resource"
                THEN pbxCreateGroup(g, newGroupKey,
                       IF kind = "source" THEN "Sources" ELSE "Headers")
                ELSE g
        group == IF create THEN newGroupKey ELSE groupName
        throws == \/ kind = "framework" /\ addFrameworkThrows(g, filePath)
                  \/ /\ kind = "resource"
                     /\ addResourceFileThrows(g, filePath, guarded)
        g1 == CASE kind = "source" -> addSourceFile(g0, filePath, group, fr, uu)
                [] kind = "header" -> addHeaderFile(g0, filePath, group, fr)
                [] kind = "framework" ->
                     IF throws THEN addFrameworkPartial(g, filePath, fr, uu)
                     ELSE addFramework(g, filePath, fr, uu)
                [] OTHER ->
                     IF throws THEN g
                     ELSE addResourceFile(g, filePath, fr, uu, newGroupKey)
        res == CASE ~exists -> "File does not exist"
                 [] throws -> "Error"
                 [] kind = "source" -> "Added source file"
                 [] kind = "header" -> "Added header file"
                 [] kind = "framework" -> "Added framework"
                 [] OTHER -> "Added resource file"
        wrote == exists /\ ~throws
        added == fr \in IdsOf(g1.fileRefs)
    IN
    /\ calls < MaxCalls
    /\ calls' = calls + 1
    /\ UNCHANGED <<guarded, stepVars, restVars>>
    /\ prior' = priorOf(last, before)
    /\ before' = g
    /\ project' = IF exists THEN g1 ELSE g
    /\ disk' = IF wrote THEN writeSync(g1) ELSE disk
    /\ last' = [NoCall EXCEPT
                  !.op = "add", !.filePath = filePath, !.result = res,
                  !.written = wrote,
                  !.groupName = groupName,
                  !.newGroupKey = IF exists THEN newGroupKey ELSE NoId,
                  !.newFileRef = IF exists /\ added THEN fr ELSE NoId,
                  !.newUuid = IF exists /\ added /\ uu \in IdsOf(g1.buildFiles)
                                THEN uu ELSE NoId]

\* ---- remove: the path matching loop (index.ts 710-741) -------------------
\* filePath without a leading 'ios/'
normalizedPathOf(filePath) ==
  IF StartsWith(filePath, <<"ios", SLASH>>)
    THEN SubSeq(filePath, 3, Len(filePath))
    ELSE filePath

\* (refObj.path || refObj.name || '').replace(/"/g, '')
refPathOf(refObj) ==
  StripQuotes(IF refObj.path # <<>> THEN refObj.path ELSE refObj.name)

\* the operands of the || chain at index.ts 731-735
MatchExact(refPath, normalizedPath) == refPath = normalizedPath
MatchFileName(refPath, normalizedPath) == refPath = Basename(normalizedPath)
MatchSuffix(refPath, normalizedPath) ==
  EndsWith(refPath, <<SLASH>> \o normalizedPath)
MatchLoose(refPath, normalizedPath) ==
  \/ EndsWith(refPath, <<SLASH>> \o Basename(normalizedPath))
  \/ EndsWith(normalizedPath, <<SLASH>> \o refPath)

\* the condition under which the loop stops at refObj
refMatches(refObj, normalizedPath) ==
  /\ refObj.path # <<>> \/ refObj.name # <<>>
  /\ LET refPath == refPathOf(refObj)
     IN  \/ MatchExact(refPath, normalizedPath)
         \/ MatchFileName(refPath, normalizedPath)
         \/ MatchSuffix(refPath, normalizedPath)
         \/ MatchLoose(refPath, normalizedPath)

\* a faulty loop: fileRef is set before the test, so that a loop that
\* runs to the end leaves the last record in it
fileRefIndex_LastSeen(g, normalizedPath) ==
  LET k == FirstIndex(g.fileRefs, LAMBDA r : refMatches(r, normalizedPath))
  IN  IF k = 0 THEN Len(g.fileRefs) ELSE k

\* index of the record the loop breaks at, 0 when it runs to the end
fileRefIndex(g, normalizedPath) ==
  FirstIndex(g.fileRefs, LAMBDA r : refMatches(r, normalizedPath))

\* index.ts 744-753: the first build file whose fileRef is the record
buildFileUuidOf(g, fileRef) ==
  LET b == FirstIndex(g.buildFiles, LAMBDA bf : bf.fileRef = fileRef)
  IN  IF b = 0 THEN NoId ELSE g.buildFiles[b].id

\* index.ts 761-802: the library call for the extension
libRemove(g, kind, path) ==
  CASE kind = "source" -> removeSourceFile(g, path)
    [] kind = "header" -> removeHeaderFile(g, path)
    [] kind = "framework" -> removeFramework(g, path)
    [] OTHER -> removeResourceFile(g, path)

libRemoveThrows(g, kind, guard) ==
  CASE kind \in {"source", "header"} -> removePluginFileThrows(g, guard)
    [] kind = "framework" -> FALSE
    [] OTHER -> removeResourceFileThrows(g, guard)

\* index.ts 805-846: the manual removal
manualRemove(g, fileRef, buildFileUuid) ==
  [g EXCEPT
     !.fileRefs = SelectSeq(@, LAMBDA r : r.id # fileRef),
     !.buildFiles = IF buildFileUuid # NoId
                      THEN SelectSeq(@, LAMBDA b : b.id # buildFileUuid)
                      ELSE @,
     !.phases = [role \in Roles |->
                   SelectSeq(@[role], LAMBDA f : f.value # buildFileUuid)],
     !.groups = MapSeq(@, LAMBDA gr :
                   [gr EXCEPT !.children = SelectSeq(@, LAMBDA c : c # fileRef)])]

\* ---- sync_xcode_project, operation remove (index.ts 709-864, 876-893) ----
SyncRemove(filePath) ==
  LET g == parseSync(disk)
      normalizedPath == normalizedPathOf(filePath)
      k == fileRefIndex(g, normalizedPath)
      fileFound == k # 0
      fileRef == IF fileFound THEN g.fileRefs[k].id ELSE NoId
      buildFileUuid == buildFileUuidOf(g, fileRef)
      kind == KindOfExt(ExtOf(normalizedPath))
      fileName == Basename(normalizedPath)
      \* the first library call, by the normalised path
      throws1 == libRemoveThrows(g, kind, guarded)
      \* the second one, by the basename, for a source or a header; the
      \* failed first call has left the graph as it was
      retried == throws1 /\ kind \in {"source", "header"}
      throws2 == libRemoveThrows(g, kind, guarded)
      via == IF ~fileFound THEN "none"
             ELSE IF ~throws1 THEN "library"
             ELSE IF retried /\ ~throws2 THEN "retry"
             ELSE "manual"
      g1 == CASE via = "none" -> g
              [] via = "library" -> libRemove(g, kind, normalizedPath)
              [] via = "retry" -> libRemove(g, kind, fileName)
              [] OTHER -> manualRemove(g, fileRef, buildFileUuid)
  IN
  /\ calls < MaxCalls
  /\ calls' = calls + 1
  /\ UNCHANGED <<guarded, stepVars, restVars>>
  /\ prior' = priorOf(last, before)
  /\ before' = g
  /\ project' = g1
  /\ disk' = writeSync(g1)
  /\ last' = [NoCall EXCEPT
                !.op = "remove", !.filePath = filePath,
                !.result = IF fileFound THEN "Removed file" ELSE "File not found",
                !.written = TRUE,
                !.fileRef = fileRef, !.buildFileUuid = buildFileUuid,
                !.via = via]

\* ---- sync_xcode_project, any other operation (index.ts 865-874) ----------
SyncOther(filePath) ==
  LET g == parseSync(disk)
  IN
  /\ calls < MaxCalls
  /\ calls' = calls + 1
  /\ UNCHANGED <<guarded, stepVars, restVars>>
  /\ prior' = priorOf(last, before)
  /\ before' = g
  /\ project' = g
  /\ disk' = disk
  /\ last' = [NoCall EXCEPT
                !.op = "other", !.filePath = filePath,
                !.result = "Unknown operation"]

Next ==
  \E filePath \in InputPaths :
    \/ SyncAdd(filePath)
    \/ SyncRemove(filePath)
    \/ SyncOther(filePath)

Spec == Init /\ [][Next]_vars

\* ------------------------------------------------------------------------
\* sync_xcode_project step by step (index.ts 628-893): one action per step
\* of the handler on the graph in memory (project) and on the manifest
\* ------------------------------------------------------------------------
\* number of calls in a run of StepSpec
MaxRuns == 1

Operations == {"add", "remove", "other"}

\* the steps that change the graph in memory
MutationSteps ==
  {"pbxCreateGroup", "add", "libRemove", "deleteFileRef", "deleteBuildFile",
   "filterPhases", "filterGroups"}

\* index.ts 585-631: the arguments are read, the manifest is parsed
StepParse(operation, filePath) ==
  /\ pc = "idle"
  /\ calls < MaxRuns
  /\ calls' = calls + 1
  /\ before' = parseSync(disk)
  /\ project' = parseSync(disk)
  /\ last' = [NoCall EXCEPT !.op = operation, !.filePath = filePath]
  /\ log' = <<>>
  /\ pc' = operation
  /\ UNCHANGED <<disk, guarded, prior, restVars>>

\* index.ts 640-678: the file is looked up on disk, then the group search
StepLocate ==
  /\ pc = "add"
  /\ \E exists \in BOOLEAN :
       LET kind == KindOfExt(ExtOf(last.filePath))
           groupName == groupNameOf(project)
       IN  IF ~exists
             THEN /\ last' = [last EXCEPT !.result = "File does not exist"]
                  /\ pc' = "idle"
             ELSE /\ last' = [last EXCEPT !.groupName = groupName]
                  /\ pc' = IF groupName = NoId /\ kind \in {"source", "header"}
                             THEN "createGroup" ELSE "addFile"
  /\ UNCHANGED <<disk, project, before, calls, guarded, prior, log, restVars>>

\* index.ts 686, 695: project.pbxCreateGroup('Sources' / 'Headers')
StepCreateGroup ==
  /\ pc = "createGroup"
  /\ \E key \in FreshIds(project) :
       /\ project' = pbxCreateGroup(project, key,
                       IF KindOfExt(ExtOf(last.filePath)) = "source"
                         THEN "Sources" ELSE "Headers")
       /\ last' = [last EXCEPT !.newGroupKey = key]
  /\ log' = Append(log, "pbxCreateGroup")
  /\ pc' = "addFile"
  /\ UNCHANGED <<disk, before, calls, guarded, prior, restVars>>

\* index.ts 680-707: the library call for the extension; when it throws,
\* the catch at 894 returns the error
StepAddFile ==
  /\ pc = "addFile"
  /\ LET g == project
         filePath == last.filePath
         kind == KindOfExt(ExtOf(filePath))
         group == IF last.newGroupKey # NoId THEN last.newGroupKey
                  ELSE last.groupName
         libCreates == /\ kind = "resource"
                       /\ ~hasFile(g, filePath)
                       /\ pbxGroupByName(g, "Resources") = 0
                       /\ guarded
         throws == \/ kind = "framework" /\ addFrameworkThrows(g, filePath)
                   \/ /\ kind = "resource"
                      /\ addResourceFileThrows(g, filePath, guarded)
     IN  \E fr \in FreshIds(g) :
         \E uu \in (IF kind # "header" THEN FreshIds(g) \ {fr} ELSE {NoId}) :
         \E key \in (IF libCreates THEN FreshIds(g) \ {fr, uu} ELSE {NoId}) :
           LET g1 == CASE kind = "source" ->
                            addSourceFile(g, filePath, group, fr, uu)
                       [] kind = "header" ->
                            addHeaderFile(g, filePath, group, fr)
                       [] kind = "framework" ->
                            IF throws
                              THEN addFrameworkPartial(g, filePath, fr, uu)
                              ELSE addFramework(g, filePath, fr, uu)
                       [] OTHER ->
                            IF throws THEN g
                            ELSE addResourceFile(g, filePath, fr, uu, key)
               added == fr \in IdsOf(g1.fileRefs)
           IN  /\ project' = g1
               /\ last' = [last EXCEPT
                             !.result =
                               CASE throws -> "Error"
                                 [] kind = "source" -> "Added source file"
                                 [] kind = "header" -> "Added header file"
                                 [] kind = "framework" -> "Added framework"
                                 [] OTHER -> "Added resource file",
                             !.newGroupKey = IF libCreates THEN key ELSE @,
                             !.newFileRef = IF added THEN fr ELSE NoId,
                             !.newUuid = IF added /\ uu \in IdsOf(g1.buildFiles)
                                           THEN uu ELSE NoId]
               /\ pc' = IF throws THEN "idle" ELSE "write"
  /\ log' = Append(log, "add")
  /\ UNCHANGED <<disk, before, calls, guarded, prior, restVars>>

\* index.ts 710-753: the path matching loop and the build file lookup
StepMatch ==
  /\ pc = "remove"
  /\ LET k == fileRefIndex(project, normalizedPathOf(last.filePath))
         fileRef == IF k # 0 THEN project.fileRefs[k].id ELSE NoId
     IN  /\ last' = [last EXCEPT
                       !.fileRef = fileRef,
                       !.buildFileUuid = buildFileUuidOf(project, fileRef),
                       !.result = IF k = 0 THEN "File not found" ELSE @]
         /\ pc' = IF k = 0 THEN "write" ELSE "libRemove"
  /\ UNCHANGED <<disk, project, before, calls, guarded, prior, log, restVars>>

\* a faulty step: the manifest is written at the end of the try block of
\* the library call as well as at the end of the handler
StepLibRemove_Writes ==
  /\ pc = "libRemove"
  /\ LET normalizedPath == normalizedPathOf(last.filePath)
         kind == KindOfExt(ExtOf(normalizedPath))
         throws1 == libRemoveThrows(project, kind, guarded)
         retried == throws1 /\ kind \in {"source", "header"}
         throws2 == libRemoveThrows(project, kind, guarded)
     IN  IF ~throws1
           THEN /\ project' = libRemove(project, kind, normalizedPath)
                /\ last' = [last EXCEPT !.via = "library",
                                        !.result = "Removed file"]
                /\ pc' = "write"
         ELSE IF retried /\ ~throws2
           THEN /\ project' = libRemove(project, kind, Basename(normalizedPath))
                /\ last' = [last EXCEPT !.via = "retry",
                                        !.result = "Removed file"]
                /\ pc' = "write"
         ELSE /\ project' = project
              /\ last' = [last EXCEPT !.via = "manual"]
              /\ pc' = "deleteFileRef"
  /\ disk' = writeSync(project')
  /\ log' = log \o <<"libRemove", "write">>
  /\ UNCHANGED <<before, calls, guarded, prior, restVars>>

\* index.ts 755-802: the library call for the extension, and its retry by
\* the basename; a call that throws leaves the graph as it was
StepLibRemove ==
  /\ pc = "libRemove"
  /\ LET normalizedPath == normalizedPathOf(last.filePath)
         kind == KindOfExt(ExtOf(normalizedPath))
         throws1 == libRemoveThrows(project, kind, guarded)
         retried == throws1 /\ kind \in {"source", "header"}
         throws2 == libRemoveThrows(project, kind, guarded)
     IN  IF ~throws1
           THEN /\ project' = libRemove(project, kind, normalizedPath)
                /\ last' = [last EXCEPT !.via = "library",
                                        !.result = "Removed file"]
                /\ pc' = "write"
         ELSE IF retried /\ ~throws2
           THEN /\ project' = libRemove(project, kind, Basename(normalizedPath))
                /\ last' = [last EXCEPT !.via = "retry",
                                        !.result = "Removed file"]
                /\ pc' = "write"
         ELSE /\ project' = project
              /\ last' = [last EXCEPT !.via = "manual"]
              /\ pc' = "deleteFileRef"
  /\ log' = Append(log, "libRemove")
  /\ UNCHANGED <<disk, before, calls, guarded, prior, restVars>>

\* index.ts 807-808: delete fileRefs[fileRef]
StepDeleteFileRef ==
  /\ pc = "deleteFileRef"
  /\ project' = [project EXCEPT
                   !.fileRefs = SelectSeq(@, LAMBDA r : r.id # last.fileRef)]
  /\ log' = Append(log, "deleteFileRef")
  /\ pc' = "deleteBuildFile"
  /\ UNCHANGED <<disk, before, last, calls, guarded, prior, restVars>>

\* index.ts 811-814: delete buildFiles[buildFileUuid], if one was found
StepDeleteBuildFile ==
  /\ pc = "deleteBuildFile"
  /\ project' = [project EXCEPT
                   !.buildFiles =
                     IF last.buildFileUuid # NoId
                       THEN SelectSeq(@, LAMBDA b : b.id # last.buildFileUuid)
                       ELSE @]
  /\ log' = Append(log, "deleteBuildFile")
  /\ pc' = "filterPhases"
  /\ UNCHANGED <<disk, before, last, calls, guarded, prior, restVars>>

\* index.ts 817-833: the files of every build phase are filtered
StepFilterPhases ==
  /\ pc = "filterPhases"
  /\ project' = [project EXCEPT
                   !.phases = [role \in Roles |->
                     SelectSeq(@[role],
                               LAMBDA f : f.value # last.buildFileUuid)]]
  /\ log' = Append(log, "filterPhases")
  /\ pc' = "filterGroups"
  /\ UNCHANGED <<disk, before, last, calls, guarded, prior, restVars>>

\* index.ts 836-848: the children of every group are filtered
StepFilterGroups ==
  /\ pc = "filterGroups"
  /\ project' = [project EXCEPT
                   !.groups = MapSeq(@, LAMBDA gr :
                     [gr EXCEPT !.children =
                        SelectSeq(@, LAMBDA c : c # last.fileRef)])]
  /\ last' = [last EXCEPT !.result = "Removed file"]
  /\ log' = Append(log, "filterGroups")
  /\ pc' = "write"
  /\ UNCHANGED <<disk, before, calls, guarded, prior, restVars>>

\* a faulty branch for any other operation: it sets the result text only
\* and falls through to the write-back, as the not-found branch does
StepOther_FallsThrough ==
  /\ pc = "other"
  /\ last' = [last EXCEPT !.result = "Unknown operation"]
  /\ pc' = "write"
  /\ UNCHANGED <<disk, project, before, calls, guarded, prior, log, restVars>>

\* index.ts 865-874: any other operation returns the error
StepOther ==
  /\ pc = "other"
  /\ last' = [last EXCEPT !.result = "Unknown operation"]
  /\ pc' = "idle"
  /\ UNCHANGED <<disk, project, before, calls, guarded, prior, log, restVars>>

\* index.ts 877: writeFileSync(pbxprojPath, project.writeSync())
StepWrite ==
  /\ pc = "write"
  /\ disk' = writeSync(project)
  /\ last' = [last EXCEPT !.written = TRUE]
  /\ log' = Append(log, "write")
  /\ pc' = "return"
  /\ UNCHANGED <<project, before, calls, guarded, prior, restVars>>

\* index.ts 879-893: the result is returned
StepReturn ==
  /\ pc = "return"
  /\ pc' = "idle"
  /\ UNCHANGED <<syncVars, log, restVars>>

StepNext ==
  \/ \E operation \in Operations, filePath \in InputPaths :
       StepParse(operation, filePath)
  \/ StepLocate
  \/ StepCreateGroup
  \/ StepAddFile
  \/ StepMatch
  \/ StepLibRemove
  \/ StepDeleteFileRef
  \/ StepDeleteBuildFile
  \/ StepFilterPhases
  \/ StepFilterGroups
  \/ StepOther
  \/ StepWrite
  \/ StepReturn

StepSpec == Init /\ [][StepNext]_vars

\* ------------------------------------------------------------------------
\* Manifests that other tools have left in disorder (MalformedSpec)
\* ------------------------------------------------------------------------
\* A.swift has two build files, one in the Sources and one in the
\* Resources phase
GraphTwoMemberships ==
  [GraphRN EXCEPT
     !.buildFiles = Append(@, BuildFile(8, 4, fA)),
     !.phases["Resources"] = Append(@, PhaseEntry(8, fA))]

\* the build file of A.swift is listed in the Sources and in the Resources
\* phase
GraphTwoPhases ==
  [GraphRN EXCEPT !.phases["Resources"] = Append(@, PhaseEntry(6, fA))]

\* A.swift is a child of the group App and of the group Other
GraphTwoGroups ==
  [GraphRN EXCEPT
     !.groups = <<Group(1, "", <<2, 3, 8>>), Group(2, "Frameworks", <<>>),
                  Group(3, "App", <<4, 5>>), Group(8, "Other", <<4>>)>>]

MalformedGraphs == {GraphTwoMemberships, GraphTwoPhases, GraphTwoGroups}

MalformedInit ==
  \E g \in MalformedGraphs :
    /\ disk = writeSync(g)
    /\ project = g
    /\ before = g
    /\ last = NoCall
    /\ calls = 0
    /\ guarded \in BOOLEAN
    /\ prior = NoPrior
    /\ pc = "idle"
    /\ log = <<>>
    /\ RestIdle

MalformedSpec == MalformedInit /\ [][Next]_vars

\* ------------------------------------------------------------------------
\* handleToolCall (index.ts 270-927): how a call ends
\* ------------------------------------------------------------------------
\* number of calls in a run of CallSpec
MaxRequests == 2

\* the names in the tools list (index.ts 30-174)
Tools ==
  {"get_upgrade_workflow", "get_current_rn_version", "get_target_version",
   "get_upgrade_diff_files", "get_file_specific_diff", "analyze_file_type",
   "create_upgrade_todo_list", "sync_xcode_project"}

ToolNames == Tools \cup {"no_such_tool"}

\* the args of a call: undefined or null (the request has no arguments), an
\* object without the fields the tool reads, an object with them
ArgValues == {"undefined", "null", "empty object", "complete"}

\* !args
Falsy(args) == args \in {"undefined", "null"}

\* the cases that call a method on a field of args or pass it to path.join
\* outside a try of their own (index.ts 345, 483, 556, 589): a TypeError
\* when the field is undefined
DereferencesArgs(name) ==
  name \in {"get_current_rn_version", "analyze_file_type",
            "create_upgrade_todo_list", "sync_xcode_project"}

\* the cases that read the file system outside a try of their own
\* (index.ts 361 readFileSync and JSON.parse, 603 readdirSync)
ReadsFiles(name) == name \in {"get_current_rn_version", "sync_xcode_project"}

\* the cases with a return of an error text of their own (index.ts 350-377,
\* 423-435, 466-478, 592-626, 642-650, 852-874, 894-908)
ReturnsErrors(name) ==
  name \in {"get_current_rn_version", "get_upgrade_diff_files",
            "get_file_specific_diff", "sync_xcode_project"}

\* the switch statement throws inside the try at index.ts 275
throwsInTry(name, args, ioFails) ==
  \/ name \notin Tools
  \/ args = "empty object" /\ DereferencesArgs(name)
  \/ args = "complete" /\ ReadsFiles(name) /\ ioFails

Ended(name, args, outcome, text) ==
  [name |-> name, args |-> args, outcome |-> outcome, text |-> text]

\* index.ts 271-273: the test of args, before the try
CallMissingArguments(name, args) ==
  /\ Len(handled) < MaxRequests
  /\ Falsy(args)
  /\ handled' = Append(handled, Ended(name, args, "rejected", "Missing arguments"))
  /\ UNCHANGED <<syncVars, stepVars, cacheVars, diffVars>>

\* index.ts 276-910: the case of the tool returns its result, or the error
\* text of a catch of its own
CallReturns(name, args) ==
  /\ Len(handled) < MaxRequests
  /\ ~Falsy(args)
  /\ \E ioFails \in BOOLEAN :
       /\ ~throwsInTry(name, args, ioFails)
       /\ \E text \in (IF ReturnsErrors(name) THEN {"result", "Error"}
                        ELSE {"result"}) :
            handled' = Append(handled, Ended(name, args, "returned", text))
  /\ UNCHANGED <<syncVars, stepVars, cacheVars, diffVars>>

\* index.ts 911-926: what the switch throws is caught and returned as text
CallCaught(name, args) ==
  /\ Len(handled) < MaxRequests
  /\ ~Falsy(args)
  /\ \E ioFails \in BOOLEAN : throwsInTry(name, args, ioFails)
  /\ handled' = Append(handled, Ended(name, args, "returned", "Error"))
  /\ UNCHANGED <<syncVars, stepVars, cacheVars, diffVars>>

\* the sync_xcode_project variables while other tools are called
SyncIdle ==
  /\ disk = writeSync(GraphRN)
  /\ project = GraphRN
  /\ before = GraphRN
  /\ last = NoCall
  /\ calls = 0
  /\ guarded = TRUE
  /\ prior = NoPrior
  /\ pc = "idle"
  /\ log = <<>>

CallInit == SyncIdle /\ CallIdle /\ CacheIdle /\ DiffIdle

CallNext ==
  \E name \in ToolNames, args \in ArgValues :
    \/ CallMissingArguments(name, args)
    \/ CallReturns(name, args)
    \/ CallCaught(name, args)

CallSpec == CallInit /\ [][CallNext]_vars

\* ------------------------------------------------------------------------
\* fetchDiffWithCache (index.ts 202-221) under concurrent tool calls
\* (CacheSpec). A call runs up to the await of the fetch without giving
\* way; while it waits, other calls run.
\* ------------------------------------------------------------------------
\* number of calls that can be in progress at a time
MaxTasks == 3

Tasks == 1..MaxTasks

\* `${fromVersion}..${toVersion}`
CacheKeys == {"0.72.0..0.73.0", "0.73.0..0.74.0"}

DiffTools == {"get_upgrade_diff_files", "get_file_specific_diff"}

\* the text the network serves for a key
DiffOf(cacheKey) == <<"diff of", cacheKey>>

NoTask == [at |-> "idle", tool |-> "none"]

\* index.ts 399-404, 438-444, 206-215: the tool call reads its arguments
\* and calls fetchDiffWithCache, which tests diffCache.has(cacheKey): the
\* cached text is returned, or the fetch is started and awaited
CallDiffTool(t, tool, cacheKey) ==
  /\ task[t].at = "idle"
  /\ task' = [task EXCEPT ![t] =
                [at |-> IF cacheKey \in DOMAIN diffCache
                          THEN "hit" ELSE "fetching",
                 tool |-> tool]]
  /\ taskKey' = [taskKey EXCEPT ![t] = cacheKey]
  /\ UNCHANGED <<diffCache, fetches, syncVars, stepVars, callVars, diffVars>>

\* index.ts 187-194, 215-220: the response arrives, its text is put in the
\* cache and returned
FetchReturns(t) ==
  /\ task[t].at = "fetching"
  /\ fetches' = [fetches EXCEPT ![taskKey[t]] = @ + 1]
  /\ diffCache' = [k \in DOMAIN diffCache \cup {taskKey[t]} |->
                     IF k = taskKey[t] THEN DiffOf(k) ELSE diffCache[k]]
  /\ task' = [task EXCEPT ![t].at = "fetched"]
  /\ UNCHANGED <<taskKey, syncVars, stepVars, callVars, diffVars>>

\* index.ts 190-199: the fetch is aborted by the timeout, fails or answers
\* with an HTTP error; fetchWithTimeout throws and the tool call returns
\* the error text (index.ts 423-435, 466-478)
FetchFails(t) ==
  /\ task[t].at = "fetching"
  /\ task' = [task EXCEPT ![t].at = "failed"]
  /\ UNCHANGED <<diffCache, fetches, taskKey, syncVars, stepVars, callVars,
                 diffVars>>

CacheInit ==
  /\ SyncIdle /\ CallIdle /\ DiffIdle
  /\ diffCache = <<>>
  /\ fetches = [k \in CacheKeys |-> 0]
  /\ task = [t \in Tasks |-> NoTask]
  /\ taskKey = [t \in Tasks |-> ""]

CacheNext ==
  \E t \in Tasks :
    \/ \E tool \in DiffTools, cacheKey \in CacheKeys :
         CallDiffTool(t, tool, cacheKey)
    \/ FetchReturns(t)
    \/ FetchFails(t)

CacheSpec == CacheInit /\ [][CacheNext]_vars

\* ------------------------------------------------------------------------
\* parseFilesFromDiff and extractFileDiff (index.ts 223-267) (DiffSpec)
\* A text is a sequence of tokens; "diff --git", " a/", " b/" and the line
\* feed are tokens of their own.
\* ------------------------------------------------------------------------
\* number of lines of a diff text
MaxLines == 3

GIT == "diff --git"
SPA == " a/"
SPB == " b/"
NL == "\n"

\* text.split("\n")
RECURSIVE SplitLines(_)
SplitLines(text) ==
  LET i == FirstIndex(text, LAMBDA c : c = NL)
  IN  IF i = 0 THEN <<text>>
      ELSE <<SubSeq(text, 1, i - 1)>>
             \o SplitLines(SubSeq(text, i + 1, Len(text)))

\* lines.join("\n")
RECURSIVE JoinLines(_)
JoinLines(lines) ==
  IF lines = <<>> THEN <<>>
  ELSE IF Len(lines) = 1 THEN lines[1]
  ELSE lines[1] \o <<NL>> \o JoinLines(Tail(lines))

\* line.match(/diff --git a\/(.+?) b\/(.+)/): match[1], <<>> when the line
\* does not match. The match starts at the leftmost "diff --git a/" that
\* can be completed; the first group is the shortest non-empty text that
\* is followed by " b/" and a non-empty rest.
headerMatch(line) ==
  LET ends(i) == {j \in (i + 3)..(Len(line) - 1) : line[j] = SPB}
      starts == {i \in 1..(Len(line) - 1) :
                   line[i] = GIT /\ line[i + 1] = SPA /\ ends(i) # {}}
  IN  IF starts = {} THEN <<>>
      ELSE LET i == CHOOSE a \in starts : \A b \in starts : a <= b
               j == CHOOSE a \in ends(i) : \A b \in ends(i) : a <= b
           IN  SubSeq(line, i + 2, j - 1)

\* [...new Set(files)]: the first occurrence of each element, in order
RECURSIVE NewSet(_)
NewSet(s) ==
  IF s = <<>> THEN <<>>
  ELSE LET r == NewSet(SubSeq(s, 1, Len(s) - 1))
       IN  IF s[Len(s)] \in SeqToSet(r) THEN r ELSE Append(r, s[Len(s)])

\* the loop of parseFilesFromDiff: files after the last line
filesOf(lines) ==
  MapSeq(SelectSeq(lines, LAMBDA line :
                     StartsWith(line, <<GIT>>) /\ headerMatch(line) # <<>>),
         headerMatch)

\* a faulty parseFilesFromDiff: files is returned as it is
parseFilesFromDiff_NoSet(diffContent) == filesOf(SplitLines(diffContent))

\* parseFilesFromDiff(diffContent)
parseFilesFromDiff(diffContent) == NewSet(filesOf(SplitLines(diffContent)))

\* the loop of extractFileDiff from line i on: fileDiff when it ends
RECURSIVE extractLoop(_, _, _, _, _)
extractLoop(lines, i, fileName, inFile, fileDiff) ==
  IF i > Len(lines) THEN fileDiff
  ELSE LET line == lines[i]
       IN  IF /\ StartsWith(line, <<GIT>>)
              /\ headerMatch(line) # <<>>
              /\ headerMatch(line) = fileName
             THEN extractLoop(lines, i + 1, fileName, TRUE, <<line>>)
           ELSE IF inFile
             THEN IF StartsWith(line, <<GIT>>) THEN fileDiff
                  ELSE extractLoop(lines, i + 1, fileName, TRUE,
                                   Append(fileDiff, line))
           ELSE extractLoop(lines, i + 1, fileName, FALSE, fileDiff)

\* extractFileDiff(diffContent, fileName)
extractFileDiff(diffContent, fileName) ==
  JoinLines(extractLoop(SplitLines(diffContent), 1, fileName, FALSE, <<>>))

\* the lines of the diff texts: the headers of x and of y, the header of
\* x renamed to y, a header with " b/" twice, a line that starts like a
\* header and matches further on, a line that starts like a header but is
\* none, a changed line that quotes a header, a changed line, an empty line
DiffLines ==
  {<<GIT, SPA, "x", SPB, "x">>,
   <<GIT, SPA, "y", SPB, "y">>,
   <<GIT, SPA, "x", SPB, "y">>,
   <<GIT, SPA, "x", SPB, "y", SPB, "x">>,
   <<GIT, "+", GIT, SPA, "y", SPB, "y">>,
   <<GIT, "x">>,
   <<"+", GIT, SPA, "y", SPB, "y">>,
   <<"+">>,
   <<>>}

\* the fileName arguments
FileNames == {<<"x">>, <<"y">>, <<"z">>, <<"x", SPB, "y">>, <<>>}

\* get_upgrade_diff_files (index.ts 405): parseFilesFromDiff(diffContent)
ListFiles ==
  /\ diffAt = "start"
  /\ fileList' = parseFilesFromDiff(diffText)
  /\ diffAt' = "listed"
  /\ UNCHANGED <<diffText, askedFile, fragment, syncVars, stepVars, callVars,
                 cacheVars>>

\* get_file_specific_diff (index.ts 445): extractFileDiff(diffContent,
\* fileName)
ExtractFile(fileName) ==
  /\ diffAt = "listed"
  /\ askedFile' = fileName
  /\ fragment' = extractFileDiff(diffText, fileName)
  /\ diffAt' = "extracted"
  /\ UNCHANGED <<diffText, fileList, syncVars, stepVars, callVars, cacheVars>>

DiffInit ==
  /\ SyncIdle /\ CallIdle /\ CacheIdle
  /\ \E n \in 1..MaxLines : \E lines \in [1..n -> DiffLines] :
       diffText = JoinLines(lines)
  /\ fileList = <<>>
  /\ askedFile = <<>>
  /\ fragment = <<>>
  /\ diffAt = "start"

DiffNext ==
  \/ ListFiles
  \/ \E fileName \in FileNames : ExtractFile(fileName)

DiffSpec == DiffInit /\ [][DiffNext]_vars

\* ------------------------------------------------------------------------
\* Integrity of a graph
\* ------------------------------------------------------------------------
\* what the last call reports
Removed == last.op = "remove" /\ last.result = "Removed file"
Added ==
  /\ last.op = "add"
  /\ last.result \in {"Added source file", "Added header file",
                      "Added framework", "Added resource file"}

\* the build files of g that reference file record fr
BuildFilesOf(g, fr) ==
  {g.buildFiles[i].id : i \in {j \in 1..Len(g.buildFiles) :
                                 g.buildFiles[j].fileRef = fr}}

\* the ids listed in the build phases of g
PhaseMembers(g) ==
  UNION {{g.phases[role][i].value : i \in 1..Len(g.phases[role])} :
         role \in Roles}

\* the ids listed as children of the groups of g
GroupChildren(g) ==
  UNION {SeqToSet(g.groups[i].children) : i \in 1..Len(g.groups)}

\* no table of g refers to file record fr, nor to a build file that
\* referenced it in g0
Unreferenced(g, g0, fr) ==
  /\ fr \notin IdsOf(g.fileRefs)
  /\ BuildFilesOf(g, fr) = {}
  /\ PhaseMembers(g) \cap BuildFilesOf(g0, fr) = {}
  /\ fr \notin GroupChildren(g)

\* C1: after a remove that reports 'Removed file', by whichever removal
\* path, the resolved file record is in no table: not in the file
\* reference section, not referenced by a build file, none of its build
\* files listed in a build phase, not a child of a group.
C1_CascadeComplete ==
  Removed => Unreferenced(project, before, last.fileRef)

\* the same, for the removals done by the manual fallback alone
C1_ManualCascadeComplete ==
  (Removed /\ last.via = "manual")
    => Unreferenced(project, before, last.fileRef)

\* ------------------------------------------------------------------------
\* The path matcher as four passes
\* ------------------------------------------------------------------------
\* record refObj matches normalizedPath by rule n of the four
MatchesRule(n, refObj, normalizedPath) ==
  /\ refObj.path # <<>> \/ refObj.name # <<>>
  /\ LET refPath == refPathOf(refObj)
     IN  CASE n = 1 -> MatchExact(refPath, normalizedPath)
           [] n = 2 -> MatchFileName(refPath, normalizedPath)
           [] n = 3 -> MatchSuffix(refPath, normalizedPath)
           [] OTHER -> MatchLoose(refPath, normalizedPath)

\* the record chosen when the rules are tried one after the other, each
\* over the whole table: the first record, in table order, matching the
\* first rule that any record matches; NoId when no rule matches a record
PassPriorityRef(g, normalizedPath) ==
  LET hits(n) == {i \in 1..Len(g.fileRefs) :
                    MatchesRule(n, g.fileRefs[i], normalizedPath)}
      rules == {n \in 1..4 : hits(n) # {}}
  IN  IF rules = {} THEN NoId
      ELSE LET n == CHOOSE m \in rules : \A o \in rules : m <= o
               i == CHOOSE j \in hits(n) : \A o \in hits(n) : j <= o
           IN  g.fileRefs[i].id

\* C2: remove resolves the path by pass priority: the record it resolves
\* is the one the four rules, tried in order over all records, choose, and
\* it reports not found exactly when no rule matches any record.
C2_PassPriority ==
  last.op = "remove" =>
    /\ last.fileRef = PassPriorityRef(before, normalizedPathOf(last.filePath))
    /\ (last.result = "File not found") = (last.fileRef = NoId)

\* C3: a remove whose path matches no file record reports not found and
\* leaves the graph as it was parsed; the manifest written back is the
\* serialisation of the graph before the call.
C3_NotFoundUnchanged ==
  (/\ last.op = "remove"
   /\ \A i \in 1..Len(before.fileRefs) :
        ~refMatches(before.fileRefs[i], normalizedPathOf(last.filePath)))
    => /\ last.result = "File not found"
       /\ project = before
       /\ disk = writeSync(before)

C3_Witness ==
  /\ last.op = "remove"
  /\ last.result = "File not found"
  /\ Len(before.fileRefs) > 0
  /\ disk = writeSync(before)

\* C4: when a step of add or remove fails, the graph in memory is the graph
\* before the operation and so is the manifest on disk.
C4_FailureLeavesNoTrace ==
  last.result = "Error" =>
    /\ project = before
    /\ disk = writeSync(before)

\* ------------------------------------------------------------------------
\* The invariants of the graph
\* ------------------------------------------------------------------------
\* I1: every build file references an existing file record
I1(g) == \A i \in 1..Len(g.buildFiles) :
           g.buildFiles[i].fileRef \in IdsOf(g.fileRefs)

\* I2: every member of a build phase is an existing build file
I2(g) == PhaseMembers(g) \subseteq IdsOf(g.buildFiles)

\* I3: a file record is a child of at most one group, once
I3(g) ==
  \A f \in IdsOf(g.fileRefs) :
    Cardinality({<<i, c>> \in (1..Len(g.groups)) \X Ids :
                   /\ c \in 1..Len(g.groups[i].children)
                   /\ g.groups[i].children[c] = f}) <= 1

\* I4: no child of a group is a deleted record
I4(g) == GroupChildren(g) \subseteq IdsOf(g.fileRefs) \cup IdsOf(g.groups)

\* I5: the identifiers the last add assigned were keys of no record
I5 ==
  last.op = "add" =>
    /\ {last.newGroupKey, last.newFileRef, last.newUuid} \cap allUuids(before)
         \subseteq {NoId}
    /\ \A a, b \in {"g", "f", "u"} :
         LET id(x) == CASE x = "g" -> last.newGroupKey
                        [] x = "f" -> last.newFileRef
                        [] OTHER -> last.newUuid
         IN  (a # b /\ id(a) # NoId) => id(a) # id(b)

\* C5: after every sequence of completed add and remove calls the manifest
\* satisfies I1-I4, and the ids add assigned were fresh (I5).
C5_InvariantsPreserved ==
  LET g == parseSync(disk)
  IN  I1(g) /\ I2(g) /\ I3(g) /\ I4(g) /\ I5

\* ------------------------------------------------------------------------
\* add
\* ------------------------------------------------------------------------
\* the kind the add dispatched on, read off its report
ResultKind ==
  CASE last.result = "Added source file" -> "source"
    [] last.result = "Added header file" -> "header"
    [] last.result = "Added framework" -> "framework"
    [] last.result = "Added resource file" -> "resource"
    [] OTHER -> "none"

\* the kind of a path by the table: the lowercased text after the last
\* '.', a path without '.' being a resource
TableKind(path) ==
  IF \A i \in 1..Len(path) : path[i] # DOT THEN "resource"
  ELSE KindOfExt(ToLowerCase(SplitPop(path, DOT)))

\* the first group, in table order, with a child that is a file record of
\* kind source; NoId when there is none
FirstSourceGroup(g) ==
  LET k == FirstIndex(g.groups, LAMBDA gr :
             \E c \in 1..Len(gr.children) :
               \E i \in 1..Len(g.fileRefs) :
                 /\ g.fileRefs[i].id = gr.children[c]
                 /\ TableKind(refPathOf(g.fileRefs[i])) = "source")
  IN  IF k = 0 THEN NoId ELSE g.groups[k].id

\* the children of the group of g with key id, <<>> when there is none
ChildrenOf(g, id) ==
  LET k == getPBXGroupByKey(g, id)
  IN  IF k = 0 THEN <<>> ELSE g.groups[k].children

\* C6: the group add chooses is the first group in table order holding a
\* file record of kind source (swift, m, mm, cpp, c).
C6_GroupLocator ==
  Added => last.groupName = FirstSourceGroup(before)

\* C7: whatever the kind of the new file, its id is appended to the
\* children of the group the search found.
C7_LocatedGroupUsed ==
  (Added /\ last.newFileRef # NoId /\ last.groupName # NoId)
    => ChildrenOf(project, last.groupName)
         = Append(ChildrenOf(before, last.groupName), last.newFileRef)

\* the name of the group created for a kind
KindGroupName(kind) ==
  CASE kind = "source" -> "Sources"
    [] kind = "header" -> "Headers"
    [] kind = "framework" -> "Frameworks"
    [] OTHER -> "Resources"

\* C8: when no group qualifies, add creates a group named after the kind,
\* makes it a child of the root group and puts the new file record in it.
C8_NewGroupUnderRoot ==
  (Added /\ last.newFileRef # NoId /\ last.groupName = NoId)
    => \E k \in 1..Len(project.groups) :
         LET gr == project.groups[k]
         IN  /\ gr.id \notin IdsOf(before.groups)
             /\ gr.name = KindGroupName(ResultKind)
             /\ gr.children = <<last.newFileRef>>
             /\ \E c \in 1..Len(ChildrenOf(project, project.mainGroup)) :
                  ChildrenOf(project, project.mainGroup)[c] = gr.id

\* the build phase of a kind
KindRole(kind) ==
  CASE kind = "source" -> "Sources"
    [] kind = "framework" -> "Frameworks"
    [] OTHER -> "Resources"

\* C9: an add that created a file record created exactly one build file
\* referencing it and appended that build file to the phase of the kind,
\* all other phases unchanged; for a header it created no build file and
\* changed no phase.
C9_BuildMembership ==
  (Added /\ last.newFileRef # NoId) =>
    IF ResultKind = "header"
      THEN /\ project.buildFiles = before.buildFiles
           /\ project.phases = before.phases
      ELSE /\ last.newUuid # NoId
           /\ BuildFilesOf(project, last.newFileRef) = {last.newUuid}
           /\ Len(project.buildFiles) = Len(before.buildFiles) + 1
           /\ \A role \in Roles :
                LET old == before.phases[role]
                    new == project.phases[role]
                IN  IF role = KindRole(ResultKind)
                      THEN /\ Len(new) = Len(old) + 1
                           /\ SubSeq(new, 1, Len(old)) = old
                           /\ new[Len(new)].value = last.newUuid
                      ELSE new = old

C9_Witness ==
  /\ Added
  /\ last.newFileRef # NoId
  /\ ResultKind = "framework"
  /\ last.newUuid \in PhaseMembers(project)

\* C10: the kind add dispatches on is the kind of the path by the table.
C10_ClassifierTable ==
  Added => ResultKind = TableKind(last.filePath)

\* ------------------------------------------------------------------------
\* add followed by remove
\* ------------------------------------------------------------------------
\* path P is not in graph g: no file record of g has it as its path, and
\* the path matcher of remove resolves it to no record of g
NotPresent(g, P) ==
  /\ ~hasFile(g, P)
  /\ fileRefIndex(g, normalizedPathOf(P)) = 0

\* the last call is remove(P), the call before it was add(P), which
\* entered a file record for P in a graph that did not have P
RemoveAfterAdd ==
  /\ last.op = "remove"
  /\ prior # NoPrior
  /\ prior.filePath = last.filePath
  /\ NotPresent(prior.graph, last.filePath)

\* C11: remove(P) after add(P), for a path P that was not in the graph,
\* reports the removal and leaves the graph add(P) started from: the same
\* file records, build files, build phase lists, groups and group children.
C11_AddRemoveInverse ==
  RemoveAfterAdd =>
    /\ last.result = "Removed file"
    /\ project = prior.graph

\* ------------------------------------------------------------------------
\* An operation that is neither add nor remove
\* ------------------------------------------------------------------------
\* C12: a call whose operation is neither 'add' nor 'remove' ends by
\* reporting the unknown operation; at every step of it the graph is the
\* graph as parsed, no step on the graph or on the manifest is taken, the
\* writer is not called and the manifest on disk stays as it is.
C12_UnknownOperation ==
  [][last'.op = "other" =>
       /\ project' = parseSync(disk)
       /\ log' = <<>>
       /\ ~last'.written
       /\ disk' = disk
       /\ pc = "other" => (pc' = "idle" /\ last'.result = "Unknown operation")
    ]_vars

\* a call with an unknown operation has returned
C12_Witness ==
  /\ pc = "idle"
  /\ last.op = "other"
  /\ last.result = "Unknown operation"
  /\ project = before
  /\ disk = writeSync(before)

\* ------------------------------------------------------------------------
\* The write-back within one call
\* ------------------------------------------------------------------------
\* the places of log where the manifest was written
Writes == {i \in 1..Len(log) : log[i] = "write"}

\* C13: in one call of sync_xcode_project the manifest is written at most
\* once, and no step that changes the graph follows the write.
C13_WriteOnceAfterMutations ==
  /\ Cardinality(Writes) <= 1
  /\ \A i \in Writes : \A j \in 1..Len(log) :
       log[j] \in MutationSteps => j < i

\* a removal by the manual cascade, written back
C13_Witness ==
  /\ pc = "return"
  /\ last.via = "manual"
  /\ Writes = {Len(log)}
  /\ Len(log) = 6
  /\ disk # writeSync(before)

\* ------------------------------------------------------------------------
\* How handleToolCall ends
\* ------------------------------------------------------------------------
\* C14: every call of handleToolCall, whatever the tool name and the
\* arguments, ends by returning a result value; none ends by throwing or
\* by a rejected promise.
C14_NeverThrows ==
  \A i \in 1..Len(handled) : handled[i].outcome = "returned"

\* the calls with an unknown tool name and with arguments do return
C14_UnknownToolReturns ==
  \A i \in 1..Len(handled) :
    (handled[i].name \notin Tools /\ ~Falsy(handled[i].args))
      => handled[i].outcome = "returned" /\ handled[i].text = "Error"

C16_DefensiveCascade ==
  Removed =>
    /\ Unreferenced(project, before, last.fileRef)
    /\ I1(project) /\ I2(project) /\ I4(project)

\* the same, for the removals done by the manual cascade alone
C16_ManualDefensiveCascade ==
  (Removed /\ last.via = "manual") =>
    /\ Unreferenced(project, before, last.fileRef)
    /\ I1(project) /\ I2(project) /\ I4(project)

\* ------------------------------------------------------------------------
\* What a removal leaves alone
\* ------------------------------------------------------------------------
\* graph g1 is graph g0 without file record fr and what refers to it: the
\* other file records, the build files of other records, the other
\* children of every group and the other entries of every phase are the
\* same, in the same order
OnlyRemoved(g1, g0, fr) ==
  LET own == BuildFilesOf(g0, fr)
  IN  /\ g1.fileRefs = SelectSeq(g0.fileRefs, LAMBDA r : r.id # fr)
      /\ SelectSeq(g1.buildFiles, LAMBDA b : b.fileRef # fr)
           = SelectSeq(g0.buildFiles, LAMBDA b : b.fileRef # fr)
      /\ Len(g1.groups) = Len(g0.groups)
      /\ \A k \in 1..Len(g0.groups) :
           /\ g1.groups[k].id = g0.groups[k].id
           /\ g1.groups[k].name = g0.groups[k].name
           /\ SelectSeq(g1.groups[k].children, LAMBDA c : c # fr)
                = SelectSeq(g0.groups[k].children, LAMBDA c : c # fr)
      /\ \A role \in Roles :
           SelectSeq(g1.phases[role], LAMBDA e : e.value \notin own)
             = SelectSeq(g0.phases[role], LAMBDA e : e.value \notin own)
      /\ g1.mainGroup = g0.mainGroup

\* C17: a remove that reports 'Removed file' deletes the file record the
\* path matcher resolved and nothing that belongs to another record,
\* whichever rule matched.
C17_RemoveFrame ==
  Removed => OnlyRemoved(project, before, last.fileRef)

\* the same, for the removals done by the manual cascade alone
C17_ManualRemoveFrame ==
  (Removed /\ last.via = "manual")
    => OnlyRemoved(project, before, last.fileRef)

\* ------------------------------------------------------------------------
\* Fetches per cache key
\* ------------------------------------------------------------------------
\* C18: for every cache key at most one fetch ever returns a text,
\* whichever way the concurrent calls of the two diff tools interleave.
C18_AtMostOneFetch ==
  \A k \in CacheKeys : fetches[k] <= 1

\* the part that holds: a call that finds its key in the cache starts no
\* fetch, and a fetch that fails leaves the cache as it is
C18_HitsAndFailures ==
  [][\A t \in Tasks :
       /\ (task[t].at = "idle" /\ taskKey'[t] \in DOMAIN diffCache)
            => task'[t].at # "fetching"
       /\ (task[t].at = "fetching" /\ task'[t].at = "failed")
            => diffCache' = diffCache /\ fetches' = fetches]_vars

\* ------------------------------------------------------------------------
\* The file list and the fragments of a diff
\* ------------------------------------------------------------------------
\* the file a line is the header of, <<>> when it is no header
HeaderName(line) ==
  IF StartsWith(line, <<GIT>>) THEN headerMatch(line) ELSE <<>>

\* the places of the headers of file name in the lines
HeadersOf(lines, name) ==
  {i \in 1..Len(lines) : name # <<>> /\ HeaderName(lines[i]) = name}

\* C19: parseFilesFromDiff returns the files that have a header in the
\* diff, each once, in the order of their first headers; for a file of the
\* list extractFileDiff returns a non-empty text whose first line is a
\* header of the file and in which no line is the header of another file;
\* for any other name it returns the empty text.
C19_ListAndFragmentsAgree ==
  LET lines == SplitLines(diffText)
      first(name) == CHOOSE i \in HeadersOf(lines, name) :
                       \A j \in HeadersOf(lines, name) : i <= j
      part == SplitLines(fragment)
  IN  /\ diffAt \in {"listed", "extracted"} =>
           /\ \A i \in 1..Len(lines) :
                HeaderName(lines[i]) # <<>>
                  => HeaderName(lines[i]) \in SeqToSet(fileList)
           /\ \A i \in 1..Len(fileList) :
                HeadersOf(lines, fileList[i]) # {}
           /\ \A i, j \in 1..Len(fileList) :
                i < j => /\ fileList[i] # fileList[j]
                         /\ first(fileList[i]) < first(fileList[j])
      /\ diffAt = "extracted" =>
           IF askedFile \in SeqToSet(fileList)
             THEN /\ fragment # <<>>
                  /\ HeaderName(part[1]) = askedFile
                  /\ \A i \in 1..Len(part) :
                       HeaderName(part[i]) \in {<<>>, askedFile}
             ELSE fragment = <<>>

\* the fragment of a file whose changes are followed by another file's
C19_Witness ==
  /\ diffAt = "extracted"
  /\ Len(fileList) = 2
  /\ askedFile = fileList[1]
  /\ Len(SplitLines(fragment)) = 2
  /\ Len(SplitLines(diffText)) = 3

====
